---- MODULE Spec2Model ----
(***************************************************************************)
(* Model of scripts/verify_version.py: one invocation of main().           *)
(*                                                                         *)
(* A Python str is a sequence of one-character strings.  A file is a       *)
(* record [kind, content]; the three files the script looks at are fixed   *)
(* by the environment and are observed by the script only when it looks    *)
(* at them, so fs[p].kind is "unobserved" until the step that calls        *)
(* Path(p).exists().  Files that exist are readable text files.            *)
(***************************************************************************)
EXTENDS Integers, Sequences, FiniteSets

VARIABLES argv, fs, reads, pc, tag_name, tag_version, pyproject_version,
          init_version, errors, out, exit_status

vars == <<argv, fs, reads, pc, tag_name, tag_version, pyproject_version,
          init_version, errors, out, exit_status>>

(***************************************************************************)
(* Bounds of the model.                                                    *)
(***************************************************************************)
MaxTagLen == 2
MaxExtraArgs == 1
MaxPyprojectLines == 2
MaxInitLines == 1

(***************************************************************************)
(* Strings.                                                                *)
(***************************************************************************)
PyprojectPath == "pyproject.toml"
InitPath == "a2ui_pydantic/__init__.py"
ReadmePath == "README.md"
Paths == {PyprojectPath, InitPath, ReadmePath}

\* A local that has not been assigned yet.
None == <<"None">>
\* The process has not called sys.exit yet.
NotExited == <<>>

NL == "\n"
DQ == "\""
SQ == "'"
\* The characters of the model's files that the class ["\'] matches.
QuoteChars == {DQ, SQ}
\* The characters of the model's files that \s matches.
SpaceChars == {" ", NL, "\t"}

VersionKey == <<"v", "e", "r", "s", "i", "o", "n">>
DunderVersionKey == <<"_", "_">> \o VersionKey \o <<"_", "_">>

\* s.startswith(prefix), and the literal part of a pattern matching at i.
StartsWithAt(s, i, lit) ==
    /\ i + Len(lit) - 1 <= Len(s)
    /\ SubSeq(s, i, i + Len(lit) - 1) = lit

\* s[1:]
DropFirst(s) == SubSeq(s, 2, Len(s))

\* tag.lstrip("v") in place of the test of startswith: every leading "v" goes.
RECURSIVE extract_version_from_tag_StripAll(_)
extract_version_from_tag_StripAll(tag) ==
    IF StartsWithAt(tag, 1, <<"v">>)
    THEN extract_version_from_tag_StripAll(DropFirst(tag))
    ELSE tag

extract_version_from_tag(tag) ==
    IF StartsWithAt(tag, 1, <<"v">>) THEN DropFirst(tag) ELSE tag

\* The first index >= i of s that holds a character outside cls, Len(s)+1 if none:
\* where a greedy cls* (or cls+) that starts at i stops.
RECURSIVE SkipWhile(_, _, _)
SkipWhile(s, i, cls) ==
    IF i > Len(s) THEN Len(s) + 1
    ELSE IF s[i] \in cls THEN SkipWhile(s, i + 1, cls)
    ELSE i

\* The first index >= i of s that holds a quote character, Len(s)+1 if none:
\* where the greedy [^"\']+ that starts at i stops.
RECURSIVE NextQuote(_, _)
NextQuote(s, i) ==
    IF i > Len(s) THEN Len(s) + 1
    ELSE IF s[i] \in QuoteChars THEN i
    ELSE NextQuote(s, i + 1)

\* key\s*=\s*["\']([^"\']+)["\'] matched at index i of s.
MatchAt(key, s, i) ==
    IF ~StartsWithAt(s, i, key) THEN [found |-> FALSE, group |-> None]
    ELSE
      LET eq == SkipWhile(s, i + Len(key), SpaceChars)
          q1 == SkipWhile(s, eq + 1, SpaceChars)
          q2 == NextQuote(s, q1 + 1)
      IN  IF /\ eq <= Len(s) /\ s[eq] = "="
             /\ q1 <= Len(s) /\ s[q1] \in QuoteChars
             /\ q2 <= Len(s) /\ q2 > q1 + 1
          THEN [found |-> TRUE, group |-> SubSeq(s, q1 + 1, q2 - 1)]
          ELSE [found |-> FALSE, group |-> None]

\* re.search: the match at the leftmost index that has one.
RECURSIVE SearchFrom(_, _, _)
SearchFrom(key, s, i) ==
    IF i > Len(s) THEN [found |-> FALSE, group |-> None]
    ELSE IF MatchAt(key, s, i).found THEN MatchAt(key, s, i)
    ELSE SearchFrom(key, s, i + 1)

re_search(key, s) == SearchFrom(key, s, 1)

\* needle in haystack
RECURSIVE ContainsFrom(_, _, _)
ContainsFrom(haystack, needle, i) ==
    IF i + Len(needle) - 1 > Len(haystack) THEN FALSE
    ELSE IF StartsWithAt(haystack, i, needle) THEN TRUE
    ELSE ContainsFrom(haystack, needle, i + 1)

Contains(haystack, needle) == ContainsFrom(haystack, needle, 1)

(***************************************************************************)
(* Output and files.                                                       *)
(***************************************************************************)
\* One call of print.
Msg(stream, id, args) == [stream |-> stream, id |-> id, args |-> args]
Stdout(id, args) == Msg("stdout", id, args)

\* One entry of main's errors list.
Err(id, args) == [id |-> id, args |-> args]

Unobserved == [kind |-> "unobserved", content |-> <<>>]
Absent == [kind |-> "absent", content |-> <<>>]
File(content) == [kind |-> "file", content |-> content]

(***************************************************************************)
(* The inputs of one invocation.                                           *)
(***************************************************************************)
SeqsUpTo(S, n) == UNION {[1..k -> S] : k \in 0..n}

RECURSIVE JoinLines(_)
JoinLines(lines) ==
    IF lines = <<>> THEN <<>>
    ELSE IF Len(lines) = 1 THEN lines[1]
    ELSE lines[1] \o <<NL>> \o JoinLines(Tail(lines))

Prog == <<"s">>
TagChars == {"v", "1"}
Tags == SeqsUpTo(TagChars, MaxTagLen)
ExtraArg == <<"v", "1">>

\* sys.argv: the script, then no argument, one tag, or a tag and more.
Argvs ==
    {<<Prog>>}
      \cup {<<Prog, t>> : t \in Tags}
      \cup {<<Prog, ExtraArg>> \o [i \in 1..k |-> ExtraArg] : k \in 1..MaxExtraArgs}

PyprojectLines ==
    { VersionKey \o <<"=", DQ, "1", DQ>>,
      VersionKey \o <<" ", "=", " ", SQ, "2", SQ>>,
      <<"m", "i", "n">> \o VersionKey \o <<"=", DQ, "2", DQ>>,
      <<"n", "a", "m", "e", "=", DQ, "p", DQ>> }

InitLines ==
    { DunderVersionKey \o <<"=", DQ, "1", DQ>>,
      DunderVersionKey \o <<" ", "=", " ", SQ, "2", SQ>>,
      <<"x", "=", "1">> }

PyprojectFiles ==
    {Absent} \cup {File(JoinLines(l)) : l \in SeqsUpTo(PyprojectLines, MaxPyprojectLines)}

InitFiles ==
    {Absent} \cup {File(JoinLines(l)) : l \in SeqsUpTo(InitLines, MaxInitLines)}

ReadmeFiles ==
    {Absent, File(<<"v", "1">>), File(<<"1">>), File(<<"2">>), File(<<"d">>)}

(***************************************************************************)
(* The functions main calls.  Each returns what the call does: whether it  *)
(* calls sys.exit(1), what it prints, whether it reads the file, and the   *)
(* value it returns.                                                       *)
(***************************************************************************)
\* A missing pattern that is reported but returns "" in place of sys.exit(1).
get_pyproject_version_NoExit(f) ==
    IF f.kind # "file"
    THEN [exits |-> TRUE, read |-> FALSE, value |-> None,
          prints |-> <<Msg("stderr", "PyprojectNotFound", <<>>)>>]
    ELSE LET match == re_search(VersionKey, f.content)
         IN  IF ~match.found
             THEN [exits |-> FALSE, read |-> TRUE, value |-> <<>>,
                   prints |-> <<Stdout("PyprojectNoVersion", <<>>)>>]
             ELSE [exits |-> FALSE, read |-> TRUE, value |-> match.group,
                   prints |-> <<>>]

get_pyproject_version(f) ==
    IF f.kind # "file"
    THEN [exits |-> TRUE, read |-> FALSE, value |-> None,
          prints |-> <<Msg("stderr", "PyprojectNotFound", <<>>)>>]
    ELSE LET match == re_search(VersionKey, f.content)
         IN  IF ~match.found
             THEN [exits |-> TRUE, read |-> TRUE, value |-> None,
                   prints |-> <<Stdout("PyprojectNoVersion", <<>>)>>]
             ELSE [exits |-> FALSE, read |-> TRUE, value |-> match.group,
                   prints |-> <<>>]

get_init_version(f) ==
    IF f.kind # "file"
    THEN [exits |-> TRUE, read |-> FALSE, value |-> None,
          prints |-> <<Stdout("InitNotFound", <<>>)>>]
    ELSE LET match == re_search(DunderVersionKey, f.content)
         IN  IF ~match.found
             THEN [exits |-> TRUE, read |-> TRUE, value |-> None,
                   prints |-> <<Stdout("InitNoVersion", <<>>)>>]
             ELSE [exits |-> FALSE, read |-> TRUE, value |-> match.group,
                   prints |-> <<>>]

check_readme_version(version, f) ==
    IF f.kind # "file"
    THEN [read |-> FALSE, prints |-> <<>>]
    ELSE IF Contains(f.content, version) \/ Contains(f.content, <<"v">> \o version)
    THEN [read |-> TRUE, prints |-> <<Stdout("ReadmeOk", <<>>)>>]
    ELSE [read |-> TRUE, prints |-> <<Stdout("ReadmeWarning", <<>>)>>]

\* A comparison that also prints its error at once.
Compare_PrintsAtOnce(differ, error, confirmation) ==
    IF differ
    THEN /\ errors' = Append(errors, error)
         /\ out' = Append(out, Stdout(error.id, error.args))
    ELSE /\ errors' = errors
         /\ out' = Append(out, confirmation)

\* One of main's three if/else comparisons: an entry appended to errors, or a
\* confirmation printed.
Compare(differ, error, confirmation) ==
    IF differ
    THEN /\ errors' = Append(errors, error)
         /\ out' = out
    ELSE /\ errors' = errors
         /\ out' = Append(out, confirmation)

\* for error in errors: print(f"   {error}")
ErrorLines(errs) == [i \in 1..Len(errs) |-> Stdout(errs[i].id, errs[i].args)]

(***************************************************************************)
(* main, step by step.                                                     *)
(***************************************************************************)
Init ==
    /\ argv \in Argvs
    /\ fs = [p \in Paths |-> Unobserved]
    /\ reads = <<>>
    /\ pc = "main"
    /\ tag_name = None
    /\ tag_version = None
    /\ pyproject_version = None
    /\ init_version = None
    /\ errors = <<>>
    /\ out = <<>>
    /\ exit_status = NotExited

\* A check that catches only the missing argument.
WrongArity_TooFewOnly == Len(argv) < 2

\* len(sys.argv) != 2
WrongArity == Len(argv) # 2

\* if len(sys.argv) != 2: the usage text, sys.exit(1).
Usage ==
    /\ pc = "main"
    /\ WrongArity
    /\ out' = out \o <<Stdout("Usage", <<>>), Stdout("UsageExample", <<>>)>>
    /\ exit_status' = <<1>>
    /\ pc' = "exited"
    /\ UNCHANGED <<argv, fs, reads, tag_name, tag_version, pyproject_version,
                   init_version, errors>>

\* tag_name = sys.argv[1]; tag_version = extract_version_from_tag(tag_name)
ExtractTag ==
    /\ pc = "main"
    /\ ~WrongArity
    /\ tag_name' = argv[2]
    /\ tag_version' = extract_version_from_tag(argv[2])
    /\ out' = out \o <<Stdout("Verifying", <<argv[2]>>),
                       Stdout("ExtractedVersion", <<tag_version'>>)>>
    /\ pc' = "get_pyproject_version"
    /\ UNCHANGED <<argv, fs, reads, pyproject_version, init_version, errors,
                   exit_status>>

\* pyproject_version = get_pyproject_version()
GetPyprojectVersion ==
    /\ pc = "get_pyproject_version"
    /\ \E f \in PyprojectFiles :
         LET r == get_pyproject_version(f)
         IN  /\ fs' = [fs EXCEPT ![PyprojectPath] = f]
             /\ reads' = IF r.read THEN Append(reads, PyprojectPath) ELSE reads
             /\ out' = out \o r.prints
             /\ pyproject_version' = r.value
             /\ exit_status' = IF r.exits THEN <<1>> ELSE exit_status
             /\ pc' = IF r.exits THEN "exited" ELSE "get_init_version"
    /\ UNCHANGED <<argv, tag_name, tag_version, init_version, errors>>

\* init_version = get_init_version(), and the two lines that print the versions
GetInitVersion ==
    /\ pc = "get_init_version"
    /\ \E f \in InitFiles :
         LET r == get_init_version(f)
         IN  /\ fs' = [fs EXCEPT ![InitPath] = f]
             /\ reads' = IF r.read THEN Append(reads, InitPath) ELSE reads
             /\ init_version' = r.value
             /\ exit_status' = IF r.exits THEN <<1>> ELSE exit_status
             /\ pc' = IF r.exits THEN "exited" ELSE "compare_tag_pyproject"
             /\ out' = IF r.exits THEN out \o r.prints
                       ELSE out \o r.prints
                              \o <<Stdout("PyprojectVersion", <<pyproject_version>>),
                                   Stdout("InitVersion", <<r.value>>)>>
    /\ UNCHANGED <<argv, tag_name, tag_version, pyproject_version, errors>>

TagDiffersFromPyproject == tag_version # pyproject_version

\* The comparison made on the tag as given, prefix and all.
TagDiffersFromInit_RawTag == tag_name # init_version

TagDiffersFromInit == tag_version # init_version

\* The second comparison's condition pasted into the third.
PyprojectDiffersFromInit_CopyPaste == tag_version # init_version

PyprojectDiffersFromInit == pyproject_version # init_version

\* if tag_version != pyproject_version
CompareTagPyproject ==
    /\ pc = "compare_tag_pyproject"
    /\ Compare(TagDiffersFromPyproject,
               Err("TagVsPyproject", <<tag_version, pyproject_version>>),
               Stdout("TagMatchesPyproject", <<>>))
    /\ pc' = "compare_tag_init"
    /\ UNCHANGED <<argv, fs, reads, tag_name, tag_version, pyproject_version,
                   init_version, exit_status>>

\* if tag_version != init_version
CompareTagInit ==
    /\ pc = "compare_tag_init"
    /\ Compare(TagDiffersFromInit,
               Err("TagVsInit", <<tag_version, init_version>>),
               Stdout("TagMatchesInit", <<>>))
    /\ pc' = "compare_pyproject_init"
    /\ UNCHANGED <<argv, fs, reads, tag_name, tag_version, pyproject_version,
                   init_version, exit_status>>

\* if pyproject_version != init_version
ComparePyprojectInit ==
    /\ pc = "compare_pyproject_init"
    /\ Compare(PyprojectDiffersFromInit,
               Err("PyprojectVsInit", <<pyproject_version, init_version>>),
               Stdout("PyprojectMatchesInit", <<>>))
    /\ pc' = "check_readme_version"
    /\ UNCHANGED <<argv, fs, reads, tag_name, tag_version, pyproject_version,
                   init_version, exit_status>>

\* A documentation check whose warning counts as a mismatch.
CheckReadme_CountsWarning ==
    /\ pc = "check_readme_version"
    /\ \E f \in ReadmeFiles :
         LET r == check_readme_version(tag_version, f)
         IN  /\ fs' = [fs EXCEPT ![ReadmePath] = f]
             /\ reads' = IF r.read THEN Append(reads, ReadmePath) ELSE reads
             /\ out' = out \o r.prints
             /\ errors' = IF r.prints = <<Stdout("ReadmeWarning", <<>>)>>
                          THEN Append(errors, Err("ReadmeWarning", <<tag_version>>))
                          ELSE errors
    /\ pc' = "report"
    /\ UNCHANGED <<argv, tag_name, tag_version, pyproject_version, init_version,
                   exit_status>>

\* check_readme_version(tag_version)
CheckReadme ==
    /\ pc = "check_readme_version"
    /\ \E f \in ReadmeFiles :
         LET r == check_readme_version(tag_version, f)
         IN  /\ fs' = [fs EXCEPT ![ReadmePath] = f]
             /\ reads' = IF r.read THEN Append(reads, ReadmePath) ELSE reads
             /\ out' = out \o r.prints
    /\ pc' = "report"
    /\ UNCHANGED <<argv, tag_name, tag_version, pyproject_version, init_version,
                   errors, exit_status>>

\* A report of the mismatches that ends in sys.exit(0).
ReportFailure_ExitZero ==
    /\ pc = "report"
    /\ errors # <<>>
    /\ out' = out \o <<Stdout("FailedHeader", <<>>)>> \o ErrorLines(errors)
                  \o <<Stdout("HintHeader", <<>>), Stdout("HintPyproject", <<>>),
                       Stdout("HintInit", <<>>), Stdout("HintReadme", <<>>)>>
    /\ exit_status' = <<0>>
    /\ pc' = "exited"
    /\ UNCHANGED <<argv, fs, reads, tag_name, tag_version, pyproject_version,
                   init_version, errors>>

\* if errors: the report, sys.exit(1)
ReportFailure ==
    /\ pc = "report"
    /\ errors # <<>>
    /\ out' = out \o <<Stdout("FailedHeader", <<>>)>> \o ErrorLines(errors)
                  \o <<Stdout("HintHeader", <<>>), Stdout("HintPyproject", <<>>),
                       Stdout("HintInit", <<>>), Stdout("HintReadme", <<>>)>>
    /\ exit_status' = <<1>>
    /\ pc' = "exited"
    /\ UNCHANGED <<argv, fs, reads, tag_name, tag_version, pyproject_version,
                   init_version, errors>>

\* otherwise: "All version checks passed!", sys.exit(0)
ReportSuccess ==
    /\ pc = "report"
    /\ errors = <<>>
    /\ out' = Append(out, Stdout("AllPassed", <<>>))
    /\ exit_status' = <<0>>
    /\ pc' = "exited"
    /\ UNCHANGED <<argv, fs, reads, tag_name, tag_version, pyproject_version,
                   init_version, errors>>

Next ==
    \/ Usage
    \/ ExtractTag
    \/ GetPyprojectVersion
    \/ GetInitVersion
    \/ CompareTagPyproject
    \/ CompareTagInit
    \/ ComparePyprojectInit
    \/ CheckReadme
    \/ ReportFailure
    \/ ReportSuccess

Spec == Init /\ [][Next]_vars

TypeOK ==
    /\ pc \in {"main", "get_pyproject_version", "get_init_version",
               "compare_tag_pyproject", "compare_tag_init",
               "compare_pyproject_init", "check_readme_version", "report",
               "exited"}
    /\ exit_status \in {NotExited, <<0>>, <<1>>}
    /\ (pc = "exited") = (exit_status # NotExited)

(***************************************************************************)
(* What the claims speak of.                                               *)
(***************************************************************************)
\* The tag with one leading "v" removed, from sys.argv itself.
GivenTag == argv[2]
StrippedTag ==
    IF GivenTag # <<>> /\ Head(GivenTag) = "v" THEN Tail(GivenTag) ELSE GivenTag

Printed(id) == \E i \in DOMAIN out : out[i].id = id
Ids(seq) == [i \in DOMAIN seq |-> seq[i].id]
Count(seq, id) == Cardinality({i \in DOMAIN seq : seq[i].id = id})

ErrorId == <<"TagVsPyproject", "TagVsInit", "PyprojectVsInit">>
ConfirmationId == <<"TagMatchesPyproject", "TagMatchesInit", "PyprojectMatchesInit">>
ReadmeIds == {"ReadmeOk", "ReadmeWarning"}
ErrorIds == {ErrorId[k] : k \in DOMAIN ErrorId}
ConfirmationIds == {ConfirmationId[k] : k \in DOMAIN ConfirmationId}
ComparisonIds == ErrorIds \cup ConfirmationIds
Rank(id) == CHOOSE k \in 1..3 : ErrorId[k] = id \/ ConfirmationId[k] = id

\* How many of the three comparisons have been made.
ComparisonsDone ==
    CASE pc = "compare_tag_init" -> 1
      [] pc = "compare_pyproject_init" -> 2
      [] pc \in {"check_readme_version", "report"} -> 3
      [] pc = "exited" /\ init_version # None -> 3
      [] OTHER -> 0

\* The file at p has been looked at and is missing, or lacks the pattern of key.
Fails(p, key) ==
    \/ fs[p].kind = "absent"
    \/ fs[p].kind = "file" /\ ~re_search(key, fs[p].content).found

Declares(p, key) == fs[p].kind = "file" /\ re_search(key, fs[p].content).found

ManifestFails == Fails(PyprojectPath, VersionKey)
ModuleFails == Fails(InitPath, DunderVersionKey)

C3_OneDiffers ==
    ComparisonsDone = 3 =>
      /\ (pyproject_version = init_version /\ tag_version # init_version) =>
           /\ Ids(errors) = <<"TagVsPyproject", "TagVsInit">>
           /\ Printed("PyprojectMatchesInit")
           /\ pc = "exited" => exit_status = <<1>>
      /\ (tag_version = init_version /\ pyproject_version # init_version) =>
           /\ Ids(errors) = <<"TagVsPyproject", "PyprojectVsInit">>
           /\ Printed("TagMatchesInit")
           /\ pc = "exited" => exit_status = <<1>>
      /\ (tag_version = pyproject_version /\ init_version # tag_version) =>
           /\ Ids(errors) = <<"TagVsInit", "PyprojectVsInit">>
           /\ Printed("TagMatchesPyproject")
           /\ ~Printed("TagMatchesInit")
           /\ pc = "exited" => exit_status = <<1>>

C3_Witness ==
    /\ pc = "exited"
    /\ tag_version = pyproject_version
    /\ init_version # tag_version
    /\ Len(errors) = 2

\* C4: a manifest that is missing or lacks its pattern ends the process with
\* status 1 in the step that finds it: no comparison is made or printed, the
\* module file and README.md are never looked at.  A failing module file does
\* the same, before any comparison and before README.md is looked at.
C4_FailFast ==
    /\ ManifestFails =>
         /\ pc = "exited" /\ exit_status = <<1>>
         /\ fs[InitPath] = Unobserved /\ fs[ReadmePath] = Unobserved
         /\ \A i \in DOMAIN reads : reads[i] = PyprojectPath
         /\ init_version = None
         /\ errors = <<>>
         /\ \A i \in DOMAIN out : out[i].id \notin ComparisonIds \cup ReadmeIds
    /\ ModuleFails =>
         /\ pc = "exited" /\ exit_status = <<1>>
         /\ fs[ReadmePath] = Unobserved
         /\ \A i \in DOMAIN reads : reads[i] # ReadmePath
         /\ errors = <<>>
         /\ \A i \in DOMAIN out : out[i].id \notin ComparisonIds \cup ReadmeIds

C4_Witness ==
    /\ pc = "exited"
    /\ fs[PyprojectPath].kind = "file"
    /\ ManifestFails

\* C5: every message the program prints goes to standard output.
C5_AllStdout == \A i \in DOMAIN out : out[i].stream = "stdout"

\* C6: once the tag version is extracted, a tag "v" + X has given X and a tag
\* without a leading "v" has given the tag itself; every tag gives a version.
C6_StripOneV ==
    /\ tag_version # None =>
         IF tag_name # <<>> /\ Head(tag_name) = "v"
         THEN <<"v">> \o tag_version = tag_name
         ELSE tag_version = tag_name
    /\ (Len(argv) = 2 /\ pc # "main") => (tag_name = argv[2] /\ tag_version # None)

C6_Witness ==
    /\ tag_name = <<"v", "v">>
    /\ tag_version = <<"v">>

\* C7: with no argument or more than one, the process goes from its start
\* straight to its end: status 1, exactly the two usage lines on standard
\* output, no tag version extracted, no file looked at.
C7_Usage ==
    Len(argv) # 2 =>
      /\ pc \in {"main", "exited"}
      /\ tag_name = None /\ tag_version = None
      /\ reads = <<>>
      /\ \A p \in Paths : fs[p] = Unobserved
      /\ pc = "exited" =>
           /\ exit_status = <<1>>
           /\ out = <<Msg("stdout", "Usage", <<>>), Msg("stdout", "UsageExample", <<>>)>>

C7_Witness ==
    /\ Len(argv) > 2
    /\ pc = "exited"

\* The characters of the model's files that a key's name is made of.
KeyNameChars ==
    {"v", "e", "r", "s", "i", "o", "n", "m", "a", "p", "x", "_", "-", "1", "2"}

\* The value of the first assignment in s whose key is the word version itself.
RECURSIVE LiteralKeyFrom(_, _)
LiteralKeyFrom(s, i) ==
    IF i > Len(s) THEN None
    ELSE IF MatchAt(VersionKey, s, i).found /\ (i = 1 \/ s[i - 1] \notin KeyNameChars)
    THEN MatchAt(VersionKey, s, i).group
    ELSE LiteralKeyFrom(s, i + 1)

\* C8: the version get_pyproject_version returns is the value of the first
\* assignment in the manifest whose key is literally version, not that of an
\* earlier key that ends with version.
C8_LiteralKey ==
    pyproject_version # None =>
      pyproject_version = LiteralKeyFrom(fs[PyprojectPath].content, 1)

C10_NeverOne ==
    ComparisonsDone = 3 => Len(errors) \in {0, 2, 3}

C10_Witness ==
    /\ pc = "exited"
    /\ Len(errors) = 3

====
